---- MODULE Spec2Model ----
(***************************************************************************)
(* Model of the types-alya generator: parser_types.py (the generation      *)
(* engine) driven by main.py (fetch, validate, emit objects, emit methods).*)
(* Python strings are TLA+ strings; Optional[X] is a sequence of length 0  *)
(* (None) or 1 (the value); a call that may raise returns a record         *)
(* [ok, val] where val is the text, or the exception's name when not ok.   *)
(***************************************************************************)
EXTENDS Integers, Sequences, FiniteSets, TLC

VARIABLES pc, data, parsed, code_objects, code_methods, stdout

vars == <<pc, data, parsed, code_objects, code_methods, stdout>>

\* ---------------------------------------------------------------- bounds
MaxDepth == 2
MaxProps == 2
MaxObjects == 3

\* ------------------------------------------------------- Python plumbing
None == <<>>
Some(x) == <<x>>
IsNone(o) == o = <<>>

Ok(s) == [ok |-> TRUE, val |-> s]
Raised(e) == [ok |-> FALSE, val |-> e]
Unset == [ok |-> FALSE, val |-> "unset"]

AllOk(rs) == \A i \in 1..Len(rs) : rs[i].ok
FirstRaised(rs) == rs[CHOOSE i \in 1..Len(rs) : ~rs[i].ok /\ \A j \in 1..(i-1) : rs[j].ok]
Vals(rs) == [i \in 1..Len(rs) |-> rs[i].val]

RECURSIVE Join(_, _)
Join(sep, parts) ==
  IF Len(parts) = 0 THEN ""
  ELSE IF Len(parts) = 1 THEN parts[1]
  ELSE parts[1] \o sep \o Join(sep, Tail(parts))

\* str.replace(old, new) for a one-character old
RECURSIVE Replace(_, _, _)
Replace(s, old, new) ==
  IF Len(s) = 0 THEN ""
  ELSE (IF SubSeq(s, 1, 1) = old THEN new ELSE SubSeq(s, 1, 1))
       \o Replace(SubSeq(s, 2, Len(s)), old, new)

EndsWith(s, ch) == Len(s) > 0 /\ SubSeq(s, Len(s), Len(s)) = ch
DropLast(s) == SubSeq(s, 1, Len(s) - 1)

Digits == "0123456789"
RECURSIVE IntToStr(_)
IntToStr(n) ==
  IF n < 0 THEN "-" \o IntToStr(0 - n)
  ELSE IF n < 10 THEN SubSeq(Digits, n + 1, n + 1)
  ELSE IntToStr(n \div 10) \o SubSeq(Digits, (n % 10) + 1, (n % 10) + 1)

UpperCase == "ABCDEFGHIJKLMNOPQRSTUVWXYZ"
LowerCase == "abcdefghijklmnopqrstuvwxyz"
IsUpper(ch) == \E i \in 1..Len(UpperCase) : SubSeq(UpperCase, i, i) = ch
Lower(ch) ==
  IF IsUpper(ch)
  THEN LET i == CHOOSE k \in 1..Len(UpperCase) : SubSeq(UpperCase, k, k) = ch
       IN SubSeq(LowerCase, i, i)
  ELSE ch

\* re.sub(r'(?<!^)(?=[A-Z])', '_', name).lower()
RECURSIVE SnakeFrom(_, _)
SnakeFrom(s, i) ==
  IF i > Len(s) THEN ""
  ELSE (IF i > 1 /\ IsUpper(SubSeq(s, i, i)) THEN "_" ELSE "")
       \o Lower(SubSeq(s, i, i)) \o SnakeFrom(s, i + 1)
snake_case_name(name) == SnakeFrom(name, 1)

\* ----------------------------------------------------------- module data
PythonReservedNames == [from |-> "from_", format |-> "format_", type |-> "type_"]

ApiObjectTypes ==
  {"properties", "reference", "any_of", "unknown", "integer", "string",
   "bool", "array", "float"}

JsonToPythonTypes == [integer |-> "int", string |-> "str", bool |-> "bool", float |-> "float"]

\* main.py: reserved_python = the values of PythonReservedNames
reserved_python == {PythonReservedNames[k] : k \in DOMAIN PythonReservedNames}

\* a default value as Python sees it: a str or an int
StrVal(s) == [py |-> "str", s |-> s, n |-> 0]
IntVal(n) == [py |-> "int", s |-> "", n |-> n]
PyTruthy(v) == IF v.py = "str" THEN v.s # "" ELSE v.n # 0
PyStr(v) == IF v.py = "str" THEN v.s ELSE IntToStr(v.n)

\* ----------------------------------------------------------- ApiTypeInfo
TypeInfo(t, ref, dflt, arr, alts) ==
  [type |-> t, reference |-> ref, default |-> dflt, array |-> arr, any_of |-> alts]

\* to_typehint with a lookup that falls back to "" instead of raising
RECURSIVE to_typehint_lenient(_, _)
to_typehint_lenient(self, ref_str) ==
  IF self.type = "any_of" /\ ~IsNone(self.any_of) /\ self.any_of[1] # <<>>
  THEN LET alts == self.any_of[1]
           rs == [i \in 1..Len(alts) |-> to_typehint_lenient(alts[i], ref_str)]
       IN IF AllOk(rs) THEN Ok("Union[" \o Join(", ", Vals(rs)) \o "]")
          ELSE FirstRaised(rs)
  ELSE IF self.type = "array" /\ ~IsNone(self.array)
  THEN LET r == to_typehint_lenient(self.array[1], ref_str)
       IN IF r.ok THEN Ok("List[" \o r.val \o "]") ELSE r
  ELSE IF self.type = "unknown"
  THEN Ok("")
  ELSE IF self.type = "reference" /\ ~IsNone(self.reference) /\ self.reference[1] # ""
  THEN IF ref_str THEN Ok("\"" \o self.reference[1] \o "\"")
       ELSE Ok("objects." \o self.reference[1])
  ELSE IF self.type \in DOMAIN JsonToPythonTypes
  THEN Ok(JsonToPythonTypes[self.type])
  ELSE Ok("")

RECURSIVE to_typehint(_, _)
to_typehint(self, ref_str) ==
  IF self.type = "any_of" /\ ~IsNone(self.any_of) /\ self.any_of[1] # <<>>
  THEN LET alts == self.any_of[1]
           rs == [i \in 1..Len(alts) |-> to_typehint(alts[i], ref_str)]
       IN IF AllOk(rs) THEN Ok("Union[" \o Join(", ", Vals(rs)) \o "]")
          ELSE FirstRaised(rs)
  ELSE IF self.type = "array" /\ ~IsNone(self.array)
  THEN LET r == to_typehint(self.array[1], ref_str)
       IN IF r.ok THEN Ok("List[" \o r.val \o "]") ELSE r
  ELSE IF self.type = "unknown"
  THEN Ok("")
  ELSE IF self.type = "reference" /\ ~IsNone(self.reference) /\ self.reference[1] # ""
  THEN IF ref_str THEN Ok("\"" \o self.reference[1] \o "\"")
       ELSE Ok("objects." \o self.reference[1])
  ELSE IF self.type \in DOMAIN JsonToPythonTypes
  THEN Ok(JsonToPythonTypes[self.type])
  ELSE Raised("KeyError")

\* ----------------------------------------------------------- validators
\* validate_name that also suffixes the names that already carry the suffix
validate_name_resuffix(value) ==
  IF value \in DOMAIN PythonReservedNames THEN PythonReservedNames[value]
  ELSE IF value \in reserved_python THEN value \o "_"
  ELSE value

validate_name(value) ==
  LET formated_name == IF value \in DOMAIN PythonReservedNames
                       THEN PythonReservedNames[value] ELSE ""
  IN IF formated_name # "" THEN formated_name ELSE value

validate_description(value) == Replace(Replace(value, "\"", "'"), "\\", "")

\* ----------------------------------------------------------- ApiProperty
Property(n, d, req, ti) == [name |-> n, description |-> d, required |-> req, type_info |-> ti]

\* self.type_info.default or None, as a truth value
HasDefault(self) ==
  ~IsNone(self.type_info.default) /\ PyTruthy(self.type_info.default[1])

default_value(self) ==
  IF ~HasDefault(self) THEN "None"
  ELSE IF self.type_info.type = "string"
       THEN "\"" \o PyStr(self.type_info.default[1]) \o "\""
       ELSE PyStr(self.type_info.default[1])

ApiProperty_to_typehint(self, ref_str) ==
  LET th == to_typehint(self.type_info, ref_str)
  IN IF ~th.ok THEN th
     ELSE IF ~self.required
     THEN Ok(self.name \o ": Optional[" \o th.val \o "] = " \o default_value(self))
     ELSE Ok(self.name \o ": " \o th.val
             \o (IF HasDefault(self) THEN " = " \o default_value(self) ELSE ""))

to_obj_var(self) == "self." \o self.name \o " = " \o self.name

to_doc_line(self) ==
  LET th == to_typehint(self.type_info, TRUE)
  IN IF ~th.ok THEN th
     ELSE Ok(self.name \o " (" \o th.val \o "): " \o self.description)

\* ------------------------------------------------------------- ApiMethod
Method(n, d, args, ret) ==
  [name |-> n, description |-> d, arguments |-> args, maybe_multipart |-> FALSE,
   return_type |-> ret]

\* the key/value pair behind one json_params entry (line 123)
json_param(el) ==
  [key |-> IF EndsWith(el.name, "_") THEN DropLast(el.name) ELSE el.name,
   value |-> el.name]

json_params(self) == [i \in 1..Len(self.arguments) |-> json_param(self.arguments[i])]

json_params_text(self) ==
  [i \in 1..Len(self.arguments) |->
     "\"" \o json_params(self)[i].key \o "\": " \o json_params(self)[i].value]

\* the local list args after line 127: required arguments, then "*" and the
\* optional ones when there are any, each rendered by to_typehint
IsRequiredArg(el) == el.required
IsOptionalArg(el) == ~el.required

arg_hints(els) == [i \in 1..Len(els) |-> ApiProperty_to_typehint(els[i], FALSE)]

to_function_args(self) ==
  LET args == SelectSeq(self.arguments, IsRequiredArg)
      args_opt == SelectSeq(self.arguments, IsOptionalArg)
  IN IF args_opt # <<>>
     THEN arg_hints(args) \o <<Ok("*")>> \o arg_hints(args_opt)
     ELSE arg_hints(args)

to_function(self) ==
  LET args == to_function_args(self)
      return_typehint == to_typehint(self.return_type, FALSE)
      doc_args == [i \in 1..Len(self.arguments) |-> to_doc_line(self.arguments[i])]
  IN IF ~AllOk(args) THEN FirstRaised(args)
     ELSE IF ~return_typehint.ok THEN return_typehint
     ELSE IF ~AllOk(doc_args) THEN FirstRaised(doc_args)
     ELSE Ok("async def " \o snake_case_name(self.name) \o "(self"
             \o (IF Len(args) > 0 THEN ", " ELSE "") \o Join(", ", Vals(args))
             \o ") -> " \o return_typehint.val \o ":\n"
             \o "        \"\"\"" \o self.description \o "\n\n"
             \o "        Args:\n"
             \o "            " \o Join("\n            ", Vals(doc_args)) \o "\n"
             \o "        \"\"\"\n"
             \o "        response_api: " \o return_typehint.val
             \o " = await self.exec_request(\n"
             \o "            \"" \o self.name \o "\",\n"
             \o "            json={" \o Join(",\n                ", json_params_text(self))
             \o "},\n"
             \o "            return_type=" \o return_typehint.val \o " # type: ignore\n\n"
             \o "        )\n"
             \o "        return response_api\n")

\* ------------------------------------------------------------- ApiObject
Object(n, d, t, props, alts) ==
  [name |-> n, description |-> d, type |-> t,
   documentation_link |-> "https://core.telegram.org/bots/api#" \o n,
   properties |-> props, any_of |-> alts]

\* the emitted model_config alias_generator (line 236), with main.py's
\* reserved_python tuple
alias_generator(x) == IF x \in reserved_python THEN DropLast(x) ELSE x

IsPlainRequired(el) == el.required /\ ~HasDefault(el)
IsOptionalOrDefaulted(el) == ~IsPlainRequired(el)

\* the local list typehints after line 228 (built in the loop, then not used
\* by the template, which renders self.properties)
typehints(self) ==
  LET props == self.properties[1]
      ordered == SelectSeq(props, IsPlainRequired) \o SelectSeq(props, IsOptionalOrDefaulted)
  IN [i \in 1..Len(ordered) |-> ApiProperty_to_typehint(ordered[i], TRUE)]

property_text(el) ==
  LET th == ApiProperty_to_typehint(el, TRUE)
      doc == to_doc_line(el)
  IN IF ~th.ok THEN th
     ELSE IF ~doc.ok THEN doc
     ELSE Ok(th.val \o "\n    \"\"\"" \o doc.val \o "\"\"\"")

\* the list joined into {properties} (line 244)
property_lines(self) ==
  [i \in 1..Len(self.properties[1]) |-> property_text(self.properties[1][i])]

to_code_properties(self) ==
  IF IsNone(self.properties) \/ self.properties[1] = <<>>
  THEN Raised("ValueError")
  ELSE LET lines == property_lines(self)
       IN IF ~AllOk(lines) THEN FirstRaised(lines)
          ELSE Ok("class " \o self.name \o "(BaseModel):\n"
                  \o "    \"\"\"" \o self.description \o "\n\n"
                  \o "    " \o self.documentation_link \o "\n"
                  \o "    \"\"\"\n"
                  \o "    model_config = ConfigDict(\n"
                  \o "        populate_by_name=True,\n"
                  \o "        alias_generator=lambda x: x[:-1] if x in reserved_python else x,\n"
                  \o "    )\n"
                  \o "    " \o Join("\n    ", Vals(lines)) \o " \n"
                  \o "    \n")

\* the alternatives resolved in direct-reference mode instead
any_of_hints_direct(self) ==
  [i \in 1..Len(self.any_of[1]) |-> to_typehint(self.any_of[1][i], FALSE)]

\* the alternatives of the emitted Union, each resolved (line 250)
any_of_hints(self) ==
  [i \in 1..Len(self.any_of[1]) |-> to_typehint(self.any_of[1][i], TRUE)]

to_code_any_of(self) ==
  IF IsNone(self.any_of) \/ self.any_of[1] = <<>>
  THEN Raised("ValueError")
  ELSE LET hints == any_of_hints(self)
       IN IF ~AllOk(hints) THEN FirstRaised(hints)
          ELSE Ok(self.name \o " = Union[" \o Join(", ", Vals(hints)) \o "]\n"
                  \o "\"\"\"" \o self.description \o "\"\"\"")

to_code_unknown(self) ==
  Ok(self.name \o " = Any\n\"\"\"" \o self.description \o "\"\"\"")

to_code(self) ==
  IF self.type = "properties" THEN to_code_properties(self)
  ELSE IF self.type = "any_of" THEN to_code_any_of(self)
  ELSE IF self.type = "unknown" THEN to_code_unknown(self)
  ELSE Ok("")

\* what to_code prints on its fall-through path (line 262)
to_code_print(self) ==
  IF self.type \in {"properties", "any_of", "unknown"} THEN <<>>
  ELSE <<self.name \o " can not be parsed!">>

\* ------------------------------------------------------------- ApiScheme
Scheme(objs, meths) == [objects |-> objs, methods |-> meths]

object_codes(self) == [i \in 1..Len(self.objects) |-> to_code(self.objects[i])]

\* to_code_objects that drops the objects whose emission raised
to_code_objects_skipping(self) ==
  LET rs == object_codes(self)
      IsOk(r) == r.ok
  IN Ok(Join("\n\n", Vals(SelectSeq(rs, IsOk))))

to_code_objects(self) ==
  LET rs == object_codes(self)
  IN IF AllOk(rs) THEN Ok(Join("\n\n", Vals(rs))) ELSE FirstRaised(rs)

method_codes(self) == [i \in 1..Len(self.methods) |-> to_function(self.methods[i])]

to_code_methods(self) ==
  LET rs == method_codes(self)
  IN IF ~AllOk(rs) THEN FirstRaised(rs)
     ELSE Ok("class ApiWrapper:\n"
             \o "    def __init__(self, token: str, *, api_url: str = \"https://api.telegram.org/\"):\n"
             \o "        self.token = token\n"
             \o "        self.api_url = api_url\n"
             \o "        self.client = AsyncClient(\n"
             \o "            base_url=api_url + \"bot\" + token + '/'\n"
             \o "        )\n\n"
             \o "    async def exec_request(\n"
             \o "            self,\n"
             \o "            method: str,\n"
             \o "            json: Dict,\n"
             \o "            return_type: Type[T]\n"
             \o "    ) -> T:\n"
             \o "        result = await self.client.post(\n"
             \o "            method,\n"
             \o "            json=json\n"
             \o "        )\n"
             \o "        mdl = ApiResponse[return_type]# type: ignore\n"
             \o "        response = mdl.model_validate(result.json())\n"
             \o "        return response.result\n\n"
             \o "    " \o Join("\n\n    ", Vals(rs)) \o "\n")


\* what the join in to_code_objects has printed when it returns or raises
RECURSIVE printed(_)
printed(objs) ==
  IF objs = <<>> THEN <<>>
  ELSE IF ~to_code(Head(objs)).ok THEN <<>>
  ELSE to_code_print(Head(objs)) \o printed(Tail(objs))

\* ------------------------------------- pydantic validation (model_validate)
RECURSIVE ValidTypeInfo(_)
ValidTypeInfo(ti) ==
  /\ ti.type \in ApiObjectTypes
  /\ IsNone(ti.array) \/ ValidTypeInfo(ti.array[1])
  /\ IsNone(ti.any_of) \/ \A i \in 1..Len(ti.any_of[1]) : ValidTypeInfo(ti.any_of[1][i])

ValidProperty(p) == ValidTypeInfo(p.type_info)

ValidObject(o) ==
  /\ o.type \in ApiObjectTypes
  /\ IsNone(o.properties) \/ \A i \in 1..Len(o.properties[1]) : ValidProperty(o.properties[1][i])
  /\ IsNone(o.any_of) \/ \A i \in 1..Len(o.any_of[1]) : ValidTypeInfo(o.any_of[1][i])

ValidMethod(m) ==
  /\ \A i \in 1..Len(m.arguments) : ValidProperty(m.arguments[i])
  /\ ValidTypeInfo(m.return_type)

ValidScheme(d) ==
  /\ \A i \in 1..Len(d.objects) : ValidObject(d.objects[i])
  /\ \A i \in 1..Len(d.methods) : ValidMethod(d.methods[i])

ParseProperty(p) ==
  [p EXCEPT !.name = validate_name(p.name),
            !.description = validate_description(p.description)]

ParseProperties(ps) == [i \in 1..Len(ps) |-> ParseProperty(ps[i])]

ParseObject(o) ==
  [o EXCEPT !.description = validate_description(o.description),
            !.properties = IF IsNone(o.properties) THEN None
                           ELSE Some(ParseProperties(o.properties[1]))]

ParseMethod(m) ==
  [m EXCEPT !.description = validate_description(m.description),
            !.arguments = ParseProperties(m.arguments)]

model_validate(d) ==
  Scheme([i \in 1..Len(d.objects) |-> ParseObject(d.objects[i])],
         [i \in 1..Len(d.methods) |-> ParseMethod(d.methods[i])])


\* ------------------------------------------------------------ the inputs
Leaf(t) == TypeInfo(t, None, None, None, None)
Ref(n) == TypeInfo("reference", Some(n), None, None, None)
ArrayOf(t) == TypeInfo("array", None, None, Some(t), None)
UnionOf(alts) == TypeInfo("any_of", None, None, None, Some(alts))
WithDefault(t, v) == [t EXCEPT !.default = Some(v)]

Leaves ==
  {Leaf("integer"), Leaf("string"), Leaf("bool"), Leaf("float"), Leaf("unknown"),
   Ref("Message"), Leaf("array"), Leaf("any_of"), UnionOf(<<>>), Leaf("properties"),
   Leaf("reference")}

\* the second alternative of a two-way union: one that resolves, one that raises
Partners == {Leaf("integer"), Leaf("array")}

\* descriptor trees of nesting depth at most d
RECURSIVE TypeInfos(_)
TypeInfos(d) ==
  IF d = 0 THEN Leaves
  ELSE LET sub == TypeInfos(d - 1)
       IN Leaves
          \cup {ArrayOf(t) : t \in sub}
          \cup {UnionOf(<<t>>) : t \in sub}
          \cup {UnionOf(<<t, l>>) : t \in sub, l \in Partners}
          \cup {UnionOf(<<l, t>>) : t \in sub, l \in Partners}

RawNames == {"type", "type_", "chat_id"}

PropertyTypes ==
  {Leaf("integer"), WithDefault(Leaf("integer"), IntVal(5)),
   WithDefault(Leaf("integer"), IntVal(0)), WithDefault(Leaf("integer"), IntVal(0 - 12)),
   WithDefault(Leaf("string"), StrVal("HTML"))}

Properties ==
  {Property(n, "The " \o n, req, ti) : n \in RawNames, req \in BOOLEAN, ti \in PropertyTypes}

RECURSIVE SeqsUpTo(_, _)
SeqsUpTo(S, n) ==
  IF n = 0 THEN {<<>>}
  ELSE LET shorter == SeqsUpTo(S, n - 1)
       IN shorter \cup {Append(q, x) : q \in {r \in shorter : Len(r) = n - 1}, x \in S}

GetMe == Method("getMe", "Returns \"me\"", <<>>, Ref("User"))

Update ==
  Object("Update", "An incoming update", "properties",
         Some(<<Property("update_id", "The id", TRUE, Leaf("integer")),
                Property("message", "New message", FALSE, Ref("Message"))>>), None)

Objects ==
  {Update,
   Object("MessageEntity", "One entity", "properties",
          Some(<<Property("type", "Kind", TRUE, Leaf("string")),
                 Property("from", "Sender", FALSE, Ref("User")),
                 Property("format", "Style", TRUE, WithDefault(Leaf("string"), StrVal("HTML"))),
                 Property("format_", "Not reserved", TRUE, Leaf("integer"))>>), None),
   Object("Empty", "No fields", "properties", None, None),
   Object("Bare", "No fields", "properties", Some(<<>>), None),
   Object("ChatId", "Id or name", "any_of", None, Some(<<Leaf("integer"), Leaf("string")>>)),
   Object("Sender", "User or id", "any_of", None, Some(<<Ref("User"), Leaf("integer")>>)),
   Object("Nothing", "No alternatives", "any_of", None, None),
   Object("Nobody", "No alternatives", "any_of", None, Some(<<>>)),
   Object("InputFile", "Upload \"as is\" via multipart\\_form", "unknown", None, None),
   Object("Link", "Not an object kind", "reference", None, None),
   Object("Poll", "A new kind", "poll", None, None)}

\* one record whose property has the descriptor t
SchemeOfObjectType(t) ==
  Scheme(<<Object("Update", "An incoming update", "properties",
                  Some(<<Property("payload", "The payload", TRUE, t)>>), None)>>,
         <<GetMe>>)

\* one method that takes and returns the descriptor t
SchemeOfMethodType(t) ==
  Scheme(<<Object("InputFile", "A file", "unknown", None, None)>>,
         <<Method("sendMessage", "Sends", <<Property("payload", "The payload", FALSE, t)>>, t)>>)

\* one record and one method over the same properties
SchemeOfProperties(ps) ==
  Scheme(<<Object("Message", "A message", "properties", Some(ps), None)>>,
         <<Method("sendMessage", "Sends a \"message\"", ps, Leaf("bool"))>>)

SchemeOfObjects(os) == Scheme(os, <<GetMe>>)

Inputs ==
  {SchemeOfObjectType(t) : t \in TypeInfos(MaxDepth)}
  \cup {SchemeOfMethodType(t) : t \in TypeInfos(MaxDepth)}
  \cup {SchemeOfProperties(ps) : ps \in SeqsUpTo(Properties, MaxProps)}
  \cup {SchemeOfObjects(os) : os \in SeqsUpTo(Objects, MaxObjects) \ {<<>>}}

\* ------------------------------------------------------------- main.py
EmptyScheme == Scheme(<<>>, <<>>)

Init ==
  /\ pc = "fetched"
  /\ data \in Inputs
  /\ parsed = EmptyScheme
  /\ code_objects = Unset
  /\ code_methods = Unset
  /\ stdout = <<>>

\* parsed = ApiScheme.model_validate(data): a tag outside ApiObjectTypes is a
\* ValidationError for the whole document, otherwise the field validators run
Parse ==
  /\ pc = "fetched"
  /\ IF ValidScheme(data)
     THEN parsed' = model_validate(data) /\ pc' = "parsed"
     ELSE parsed' = parsed /\ pc' = "failed"
  /\ UNCHANGED <<data, code_objects, code_methods, stdout>>

\* parsed.to_code_objects(), the text main.py hands to autopep8 and writes
\* to alya_types/objects.py behind a fixed header; an exception ends the run
GenerateObjects ==
  /\ pc = "parsed"
  /\ code_objects' = to_code_objects(parsed)
  /\ stdout' = printed(parsed.objects)
  /\ pc' = IF code_objects'.ok THEN "objects_written" ELSE "failed"
  /\ UNCHANGED <<data, parsed, code_methods>>

\* parsed.to_code_methods(), the text main.py hands to autopep8 and writes
\* to alya_types/api_wrapper.py behind a fixed header
GenerateMethods ==
  /\ pc = "objects_written"
  /\ code_methods' = to_code_methods(parsed)
  /\ pc' = IF code_methods'.ok THEN "done" ELSE "failed"
  /\ UNCHANGED <<data, parsed, code_objects, stdout>>

Next == Parse \/ GenerateObjects \/ GenerateMethods

Spec == Init /\ [][Next]_vars

TypeOK ==
  /\ pc \in {"fetched", "parsed", "objects_written", "done", "failed"}
  /\ code_objects.ok \in BOOLEAN
  /\ code_methods.ok \in BOOLEAN


\* =================================================================== claims
RecognizedKinds == {"properties", "any_of", "unknown"}
Emitted == pc \in {"objects_written", "done"}

\* the descriptors to_code_objects resolves: property types of records,
\* alternatives of tagged unions
ObjectDescriptors(scheme) ==
  UNION {IF o.type = "properties" /\ ~IsNone(o.properties)
         THEN {o.properties[1][i].type_info : i \in 1..Len(o.properties[1])}
         ELSE IF o.type = "any_of" /\ ~IsNone(o.any_of)
         THEN {o.any_of[1][i] : i \in 1..Len(o.any_of[1])}
         ELSE {} : o \in {scheme.objects[k] : k \in 1..Len(scheme.objects)}}

\* the descriptors to_code_methods resolves: argument and return types
MethodDescriptors(scheme) ==
  UNION {{m.return_type} \cup {m.arguments[i].type_info : i \in 1..Len(m.arguments)} :
         m \in {scheme.methods[k] : k \in 1..Len(scheme.methods)}}

Primitives == {"integer", "string", "bool", "float"}

\* a tree built only from recognized, well-formed variants
RECURSIVE WellFormed(_)
WellFormed(d) ==
  \/ d.type \in Primitives
  \/ d.type = "unknown"
  \/ d.type = "reference" /\ ~IsNone(d.reference) /\ d.reference[1] # ""
  \/ d.type = "array" /\ ~IsNone(d.array) /\ WellFormed(d.array[1])
  \/ /\ d.type = "any_of" /\ ~IsNone(d.any_of) /\ d.any_of[1] # <<>>
     /\ \A i \in 1..Len(d.any_of[1]) : WellFormed(d.any_of[1][i])

\* an array without element, a union without alternatives or an unmapped
\* primitive kind, at the node itself
MalformedHere(d) ==
  \/ d.type = "array" /\ IsNone(d.array)
  \/ d.type = "any_of" /\ (IsNone(d.any_of) \/ d.any_of[1] = <<>>)
  \/ d.type = "properties"

\* ... or at any depth the resolver descends to
RECURSIVE Malformed(_)
Malformed(d) ==
  \/ MalformedHere(d)
  \/ d.type = "array" /\ ~IsNone(d.array) /\ Malformed(d.array[1])
  \/ /\ d.type = "any_of" /\ ~IsNone(d.any_of)
     /\ \E i \in 1..Len(d.any_of[1]) : Malformed(d.any_of[1][i])

\* C1: in every emitted record declaration the properties that are required
\* and have no default come first, then the optional or defaulted ones, each
\* group in its original order.
C1_RecordPartition ==
  Emitted =>
    \A k \in 1..Len(parsed.objects) :
      LET o == parsed.objects[k]
          first == SelectSeq(o.properties[1], IsPlainRequired)
          rest == SelectSeq(o.properties[1], IsOptionalOrDefaulted)
          expected == first \o rest
      IN o.type = "properties" =>
           Vals(property_lines(o)) = [i \in 1..Len(expected) |-> property_text(expected[i]).val]

\* C2: the payload of every emitted method has one entry per argument, in
\* declared order, keyed by the argument's raw name with the sanitized
\* identifier as value; key and identifier differ only when the sanitizer
\* rewrote the name.
C2_PayloadKeysAreRawNames ==
  pc = "done" =>
    \A k \in 1..Len(parsed.methods) :
      LET raw == data.methods[k].arguments
          payload == json_params(parsed.methods[k])
      IN /\ Len(payload) = Len(raw)
         /\ \A i \in 1..Len(raw) :
              /\ payload[i].key = raw[i].name
              /\ payload[i].value = parsed.methods[k].arguments[i].name
              /\ payload[i].key # payload[i].value => raw[i].name \in DOMAIN PythonReservedNames

\* C3: every well-formed descriptor resolves, in both reference modes, to a
\* non-empty type reference, and unknown resolves to the top type Any.
C3_ResolveNonEmpty ==
  pc # "fetched" =>
    \A d \in ObjectDescriptors(parsed) \cup MethodDescriptors(parsed) :
      \A ref_str \in BOOLEAN :
        WellFormed(d) =>
          /\ to_typehint(d, ref_str).ok
          /\ to_typehint(d, ref_str).val # ""
          /\ d.type = "unknown" => to_typehint(d, ref_str).val = "Any"

\* C4: in every emitted method the arguments that are required and have no
\* default come first, then "*" exactly when an optional or defaulted
\* argument exists, then the optional or defaulted ones, each group in its
\* original order.
C4_MethodPartition ==
  pc = "done" =>
    \A k \in 1..Len(parsed.methods) :
      LET m == parsed.methods[k]
          first == SelectSeq(m.arguments, IsPlainRequired)
          rest == SelectSeq(m.arguments, IsOptionalOrDefaulted)
          expected == Vals(arg_hints(first))
                      \o (IF rest # <<>> THEN <<"*">> ELSE <<>>)
                      \o Vals(arg_hints(rest))
      IN Vals(to_function_args(m)) = expected

\* C5: an Object of a kind other than record, tagged union or opaque never
\* makes the run fail: when every other Object emits, the run reaches the
\* end and the model block is the blank-line join of the other Objects'
\* declarations in input order, with nothing in the unrecognized one's place.
C5_UnrecognizedKindIsSkipped ==
  LET objs == data.objects
      Unrecognized(o) == o.type \notin RecognizedKinds
      others_emit == \A i \in 1..Len(objs) :
                        ~Unrecognized(objs[i]) => to_code(ParseObject(objs[i])).ok
      methods_emit == \A i \in 1..Len(data.methods) :
                        to_function(ParseMethod(data.methods[i])).ok
      block == Join("\n\n", [i \in 1..Len(objs) |->
                               IF Unrecognized(objs[i]) THEN ""
                               ELSE to_code(ParseObject(objs[i])).val])
  IN ((\E i \in 1..Len(objs) : Unrecognized(objs[i])) /\ others_emit /\ methods_emit) =>
       /\ pc # "failed"
       /\ Emitted => code_objects = Ok(block)

\* how a leaf alternative reads in each reference mode
ForwardText(d) ==
  IF d.type = "reference" THEN "\"" \o d.reference[1] \o "\"" ELSE JsonToPythonTypes[d.type]
DirectText(d) ==
  IF d.type = "reference" THEN "objects." \o d.reference[1] ELSE JsonToPythonTypes[d.type]

LeafAlternatives(o) ==
  /\ o.type = "any_of" /\ ~IsNone(o.any_of) /\ o.any_of[1] # <<>>
  /\ \A i \in 1..Len(o.any_of[1]) :
       /\ o.any_of[1][i].type \in Primitives \cup {"reference"}
       /\ WellFormed(o.any_of[1][i])

AliasText(o, Text(_)) ==
  o.name \o " = Union[" \o Join(", ", [i \in 1..Len(o.any_of[1]) |-> Text(o.any_of[1][i])])
  \o "]\n\"\"\"" \o o.description \o "\"\"\""

\* C6 as stated: the alias of a tagged union lists its alternatives in
\* original order, a reference alternative as the name qualified by the
\* model module (direct-reference mode).
C6_UnionDirectReference ==
  Emitted =>
    \A k \in 1..Len(parsed.objects) :
      LeafAlternatives(parsed.objects[k]) =>
        to_code(parsed.objects[k]) = Ok(AliasText(parsed.objects[k], DirectText))

\* C6 amended: the alias of a tagged union lists its alternatives in original
\* order, a reference alternative as the quoted forward-reference name.
C6_UnionForwardReference ==
  Emitted =>
    /\ \A k \in 1..Len(parsed.objects) :
         LeafAlternatives(parsed.objects[k]) =>
           to_code(parsed.objects[k]) = Ok(AliasText(parsed.objects[k], ForwardText))
    /\ (Len(parsed.objects) = 1 /\ LeafAlternatives(parsed.objects[1])) =>
         code_objects = Ok(AliasText(parsed.objects[1], ForwardText))

C6_Witness ==
  /\ Emitted
  /\ \E k \in 1..Len(parsed.objects) :
       /\ LeafAlternatives(parsed.objects[k])
       /\ Len(parsed.objects[k].any_of[1]) = 2
       /\ parsed.objects[k].any_of[1][1].type = "reference"
       /\ parsed.objects[k].any_of[1][2].type = "integer"

\* C7: for every property of an emitted record, the emitted alias rule maps
\* the sanitized identifier back to the property's raw name.
C7_AliasRoundTrip ==
  Emitted =>
    \A k \in 1..Len(parsed.objects) :
      (parsed.objects[k].type = "properties") =>
        \A i \in 1..Len(parsed.objects[k].properties[1]) :
          alias_generator(parsed.objects[k].properties[1][i].name)
            = data.objects[k].properties[1][i].name

\* C8: a malformed descriptor, at any depth and in either reference mode,
\* makes to_typehint raise; the to_code_objects or to_code_methods call that
\* reaches it raises too and produces no text.
C8_MalformedFailsFast ==
  /\ \A d \in ObjectDescriptors(parsed) \cup MethodDescriptors(parsed) :
       \A ref_str \in BOOLEAN : Malformed(d) => ~to_typehint(d, ref_str).ok
  /\ (\E d \in ObjectDescriptors(parsed) : Malformed(d)) =>
       (pc = "parsed" \/ (pc = "failed" /\ ~code_objects.ok))
  /\ (\E d \in MethodDescriptors(parsed) : Malformed(d)) =>
       (pc \in {"parsed", "objects_written"} \/ (pc = "failed" /\ ~code_methods.ok))

\* objects were emitted, then a method hit a malformation below the root
C8_Witness ==
  /\ pc = "failed"
  /\ code_objects.ok
  /\ \E d \in MethodDescriptors(parsed) : Malformed(d) /\ ~MalformedHere(d)

AllProperties(scheme) ==
  UNION ({IF IsNone(scheme.objects[k].properties) THEN {}
          ELSE {<<"o", k, i>> : i \in 1..Len(scheme.objects[k].properties[1])} :
          k \in 1..Len(scheme.objects)}
         \cup {{<<"m", k, i>> : i \in 1..Len(scheme.methods[k].arguments)} :
               k \in 1..Len(scheme.methods)})

NameAt(scheme, at) ==
  IF at[1] = "o" THEN scheme.objects[at[2]].properties[1][at[3]].name
  ELSE scheme.methods[at[2]].arguments[at[3]].name

\* C9: validation rewrites every reserved name to a different identifier,
\* leaves every other name as it is, and sanitizing a sanitized name changes
\* nothing.
C9_SanitizerIdempotent ==
  pc \in {"parsed", "objects_written", "done"} =>
    \A at \in AllProperties(data) :
      LET raw == NameAt(data, at)
          name == NameAt(parsed, at)
      IN /\ raw \in DOMAIN PythonReservedNames => name # raw
         /\ raw \notin DOMAIN PythonReservedNames => name = raw
         /\ validate_name(name) = name

C9_Witness ==
  /\ pc = "parsed"
  /\ \E at \in AllProperties(data) : NameAt(data, at) = "format"
  /\ \E at \in AllProperties(data) : NameAt(data, at) = "format_"

\* a record without properties or a tagged union without alternatives
Hollow(o) ==
  \/ o.type = "properties" /\ (IsNone(o.properties) \/ o.properties[1] = <<>>)
  \/ o.type = "any_of" /\ (IsNone(o.any_of) \/ o.any_of[1] = <<>>)

\* C10: a record without properties or a tagged union without alternatives,
\* wherever it stands among the objects, makes to_code_objects raise: no
\* model block is produced and the run stops there.
C10_HollowObjectAborts ==
  (\E k \in 1..Len(parsed.objects) : Hollow(parsed.objects[k])) =>
    \/ pc = "parsed"
    \/ pc = "failed" /\ ~code_objects.ok /\ code_methods = Unset

\* the hollow object stands last, behind two objects that emit
C10_Witness ==
  /\ pc = "failed"
  /\ Len(parsed.objects) = 3
  /\ Hollow(parsed.objects[3])
  /\ to_code(parsed.objects[1]).ok /\ to_code(parsed.objects[1]).val # ""
  /\ to_code(parsed.objects[2]).ok


====
